---- MODULE Spec2Model ----
(***************************************************************************)
(* A model of colossus/utils.py: per-campaign mail-connection resolution   *)
(* (get_campaign_connection), client-IP extraction (get_client_ip) and the *)
(* GeoIP lookup with lazy creation of Country / City rows (get_location).  *)
(*                                                                         *)
(* Encoding of Python values:                                              *)
(*   - None for a string-valued field is the string "None";                *)
(*   - an unset integer (port, timeout) is 0, which like None is falsy;    *)
(*   - a character string that the code takes apart (a request header) is  *)
(*     a sequence of one-character strings, and None is <<"None">>.        *)
(***************************************************************************)
EXTENDS Integers, Sequences, FiniteSets, TLC

VARIABLES
    settings,     \* django.conf.settings: the process-wide mail settings
    campaign,     \* argument of the last get_campaign_connection call
    connection,   \* connection returned by that call
    mail_pc,      \* "idle" before the call, "returned" after it
    META,         \* request.META of the request given to get_client_ip
    client_ip,    \* value returned by get_client_ip
    ip_pc,        \* "idle" before the call, "returned" after it
    countries,    \* Country table: sequence of rows, a row's id is its index
    cities,       \* City table: sequence of rows, a row's id is its index
    history,      \* completed sequential get_location calls, oldest first
    pc,           \* concurrent get_location: position of each caller
    geodata,      \* concurrent get_location: vendor result of each caller
    country,      \* concurrent get_location: Country row id held by each caller
    city          \* concurrent get_location: City row id held by each caller

vars == <<settings, campaign, connection, mail_pc, META, client_ip, ip_pc,
          countries, cities, history, pc, geodata, country, city>>

mail_vars == <<settings, campaign, connection, mail_pc>>
ip_vars   == <<META, client_ip, ip_pc>>
geo_vars  == <<countries, cities, history, pc, geodata, country, city>>

None == "None"

(***************************************************************************)
(* Python truthiness of a string-or-None value and of an integer-or-None   *)
(* value, as used by `x or y` and `if x:`.                                 *)
(***************************************************************************)
Truthy(v) == v # None /\ v # ""

TruthyInt(n) == n # 0

(***************************************************************************)
(* django.conf.global_settings: the framework's built-in defaults, which   *)
(* utils.py imports by name.  They are constants of the framework, not the *)
(* settings of the running project.                                        *)
(***************************************************************************)
EMAIL_HOST == "localhost"

EMAIL_PORT == 25

EMAIL_HOST_USER == ""

EMAIL_HOST_PASSWORD == ""

EMAIL_USE_TLS == FALSE

(***************************************************************************)
(* The project's settings.  EMAIL_USE_TLS and EMAIL_USE_SSL are mutually   *)
(* exclusive: the mail backend refuses to construct a connection when both *)
(* are set, so a project with both cannot send mail at all.                *)
(***************************************************************************)
Settings ==
    { s \in [ EMAIL_HOST          : {"localhost", "smtp.site.example"},
              EMAIL_PORT          : {25, 587},
              EMAIL_HOST_USER     : {"", "site-user"},
              EMAIL_HOST_PASSWORD : {"", "site-secret"},
              EMAIL_USE_TLS       : BOOLEAN,
              EMAIL_USE_SSL       : BOOLEAN,
              EMAIL_TIMEOUT       : {0, 30},
              EMAIL_SSL_KEYFILE   : {None, "site.key"},
              EMAIL_SSL_CERTFILE  : {None, "site.crt"} ] :
        /\ ~(s.EMAIL_USE_TLS /\ s.EMAIL_USE_SSL)
        /\ (s.EMAIL_SSL_KEYFILE = None) = (s.EMAIL_SSL_CERTFILE = None) }

(***************************************************************************)
(* campaign.mailing_list: the per-mailing-list SMTP overrides.             *)
(***************************************************************************)
MailingLists ==
    [ smtp_username     : {"", "list-user"},
      smtp_password     : {"", "list-secret"},
      smtp_host         : {"", "smtp.list.example"},
      smtp_port         : {0, 465},
      smtp_use_tls      : BOOLEAN,
      smtp_use_ssl      : BOOLEAN,
      smtp_timeout      : {0, 10},
      smtp_ssl_keyfile  : {"", "list.key"},
      smtp_ssl_certfile : {"", "list.crt"} ]

NoCampaign == [none |-> TRUE]

Campaigns == {NoCampaign} \cup [mailing_list : MailingLists]

NoConnection == [none |-> TRUE]

(***************************************************************************)
(* django.core.mail.get_connection with the SMTP backend: a                *)
(* keyword that is not passed is None (0 for the port).  host and port     *)
(* fall back to the project's settings when falsy, username and password   *)
(* only when None; everything else is taken from the project's settings.   *)
(***************************************************************************)
get_connection(host, port, username, password, s) ==
    [ host         |-> IF Truthy(host) THEN host ELSE s.EMAIL_HOST,
      port         |-> IF TruthyInt(port) THEN port ELSE s.EMAIL_PORT,
      username     |-> IF username = None THEN s.EMAIL_HOST_USER ELSE username,
      password     |-> IF password = None THEN s.EMAIL_HOST_PASSWORD ELSE password,
      use_tls      |-> s.EMAIL_USE_TLS,
      use_ssl      |-> s.EMAIL_USE_SSL,
      timeout      |-> s.EMAIL_TIMEOUT,
      ssl_keyfile  |-> s.EMAIL_SSL_KEYFILE,
      ssl_certfile |-> s.EMAIL_SSL_CERTFILE ]

(***************************************************************************)
(* `a or b` on strings, integers and booleans.                             *)
(***************************************************************************)
Or(a, b) == IF Truthy(a) THEN a ELSE b

OrInt(a, b) == IF TruthyInt(a) THEN a ELSE b

OrBool(a, b) == IF a THEN a ELSE b

\* Variant of ssl_override: `or` between the two files instead of `and`.
mut_ssl_needs_one_file(use_ssl, smtp_ssl_certfile, smtp_ssl_keyfile) ==
    use_ssl /\ (Truthy(smtp_ssl_certfile) \/ Truthy(smtp_ssl_keyfile))

(***************************************************************************)
(* The condition of the last `if` of get_campaign_connection.              *)
(***************************************************************************)
ssl_override(use_ssl, smtp_ssl_certfile, smtp_ssl_keyfile) ==
    use_ssl /\ Truthy(smtp_ssl_certfile) /\ Truthy(smtp_ssl_keyfile)

\* Variant of set_attributes: the SSL block is an `else` of `if use_tls`.
mut_set_attributes_elif(conn, use_tls, timeout, use_ssl, smtp_ssl_keyfile, smtp_ssl_certfile) ==
    IF use_tls
    THEN [conn EXCEPT !.use_tls = use_tls,
                      !.timeout = IF TruthyInt(timeout) THEN timeout ELSE @]
    ELSE [conn EXCEPT
            !.timeout      = IF TruthyInt(timeout) THEN timeout ELSE @,
            !.use_ssl      = IF ssl_override(use_ssl, smtp_ssl_certfile, smtp_ssl_keyfile)
                             THEN use_ssl ELSE @,
            !.ssl_keyfile  = IF ssl_override(use_ssl, smtp_ssl_certfile, smtp_ssl_keyfile)
                             THEN smtp_ssl_keyfile ELSE @,
            !.ssl_certfile = IF ssl_override(use_ssl, smtp_ssl_certfile, smtp_ssl_keyfile)
                             THEN smtp_ssl_certfile ELSE @]

(***************************************************************************)
(* The three `if` statements that set attributes on the connection after   *)
(* its construction; each is independent of the others.                    *)
(***************************************************************************)
set_attributes(conn, use_tls, timeout, use_ssl, smtp_ssl_keyfile, smtp_ssl_certfile) ==
    [conn EXCEPT
        !.use_tls      = IF use_tls THEN use_tls ELSE @,
        !.timeout      = IF TruthyInt(timeout) THEN timeout ELSE @,
        !.use_ssl      = IF ssl_override(use_ssl, smtp_ssl_certfile, smtp_ssl_keyfile)
                         THEN use_ssl ELSE @,
        !.ssl_keyfile  = IF ssl_override(use_ssl, smtp_ssl_certfile, smtp_ssl_keyfile)
                         THEN smtp_ssl_keyfile ELSE @,
        !.ssl_certfile = IF ssl_override(use_ssl, smtp_ssl_certfile, smtp_ssl_keyfile)
                         THEN smtp_ssl_certfile ELSE @]

(***************************************************************************)
(* get_campaign_connection for a campaign that is given: the fallbacks are *)
(* the names imported from django.conf.global_settings.                    *)
(***************************************************************************)
campaign_connection(ml, s) ==
    LET smtp_username == Or(ml.smtp_username, EMAIL_HOST_USER)
        smtp_password == Or(ml.smtp_password, EMAIL_HOST_PASSWORD)
        smtp_host     == Or(ml.smtp_host, EMAIL_HOST)
        smtp_port     == OrInt(ml.smtp_port, EMAIL_PORT)
        use_tls       == OrBool(ml.smtp_use_tls, EMAIL_USE_TLS)
    IN  set_attributes(get_connection(smtp_host, smtp_port, smtp_username, smtp_password, s),
                       use_tls, ml.smtp_timeout, ml.smtp_use_ssl,
                       ml.smtp_ssl_keyfile, ml.smtp_ssl_certfile)

EmptyMailingList ==
    [ smtp_username |-> "", smtp_password |-> "", smtp_host |-> "", smtp_port |-> 0,
      smtp_use_tls |-> FALSE, smtp_use_ssl |-> FALSE, smtp_timeout |-> 0,
      smtp_ssl_keyfile |-> "", smtp_ssl_certfile |-> "" ]

\* Variant of get_campaign_connection: no early return for a missing campaign.
mut_no_early_return(c, s) ==
    campaign_connection(IF c = NoCampaign THEN EmptyMailingList ELSE c.mailing_list, s)

get_campaign_connection(c, s) ==
    IF c = NoCampaign
    THEN get_connection(None, 0, None, None, s)
    ELSE campaign_connection(c.mailing_list, s)

(***************************************************************************)
(* The TLS mode the SMTP backend opens the connection in: SMTP_SSL when    *)
(* use_ssl is set, otherwise STARTTLS when use_tls is set.                 *)
(***************************************************************************)
Mode(conn) ==
    IF conn.use_ssl THEN "implicit-SSL"
    ELSE IF conn.use_tls THEN "STARTTLS"
    ELSE "none"

MailIdle ==
    /\ campaign = NoCampaign
    /\ connection = NoConnection
    /\ mail_pc = "idle"

IpIdle ==
    /\ META = << >>
    /\ client_ip = << >>
    /\ ip_pc = "idle"

GeoIdle ==
    /\ countries = << >>
    /\ cities = << >>
    /\ history = << >>
    /\ pc = << >>
    /\ geodata = << >>
    /\ country = << >>
    /\ city = << >>

Init ==
    /\ settings \in Settings
    /\ MailIdle
    /\ IpIdle
    /\ GeoIdle

CallGetCampaignConnection ==
    /\ mail_pc = "idle"
    /\ \E c \in Campaigns :
        /\ campaign' = c
        /\ connection' = get_campaign_connection(c, settings)
    /\ mail_pc' = "returned"
    /\ UNCHANGED <<settings, ip_vars, geo_vars>>

Next == CallGetCampaignConnection

Spec == Init /\ [][Next]_vars

(***************************************************************************)
(* Claims about get_campaign_connection, checked under Spec.               *)
(***************************************************************************)
Returned == mail_pc = "returned"

Given == Returned /\ campaign # NoCampaign

BothFiles(ml) == Truthy(ml.smtp_ssl_certfile) /\ Truthy(ml.smtp_ssl_keyfile)

\* The descriptor of the process-wide default connection, field by field.
IsDefaultDescriptor(conn) ==
    /\ conn.host = settings.EMAIL_HOST
    /\ conn.port = settings.EMAIL_PORT
    /\ conn.username = settings.EMAIL_HOST_USER
    /\ conn.password = settings.EMAIL_HOST_PASSWORD
    /\ conn.use_tls = settings.EMAIL_USE_TLS
    /\ conn.use_ssl = settings.EMAIL_USE_SSL
    /\ conn.timeout = settings.EMAIL_TIMEOUT
    /\ conn.ssl_keyfile = settings.EMAIL_SSL_KEYFILE
    /\ conn.ssl_certfile = settings.EMAIL_SSL_CERTFILE

\* C1: for a configuration whose override fields are all empty, the returned
\* descriptor equals, field by field, the one returned for no campaign, whatever
\* the process-wide mail settings are.
C1_EmptyOverridesEqualDefault ==
    (Given /\ campaign.mailing_list = EmptyMailingList)
        => connection = get_campaign_connection(NoCampaign, settings)

\* C2: for a supplied configuration each of username, password, host, port and
\* use-tls of the descriptor is the configuration's value when that is
\* present/non-empty and the process-wide default otherwise.
C2_FieldwiseFallback ==
    Given =>
        LET ml == campaign.mailing_list IN
        /\ connection.username =
              (IF Truthy(ml.smtp_username) THEN ml.smtp_username
               ELSE settings.EMAIL_HOST_USER)
        /\ connection.password =
              (IF Truthy(ml.smtp_password) THEN ml.smtp_password
               ELSE settings.EMAIL_HOST_PASSWORD)
        /\ connection.host =
              (IF Truthy(ml.smtp_host) THEN ml.smtp_host ELSE settings.EMAIL_HOST)
        /\ connection.port =
              (IF TruthyInt(ml.smtp_port) THEN ml.smtp_port ELSE settings.EMAIL_PORT)
        /\ connection.use_tls =
              (IF ml.smtp_use_tls THEN ml.smtp_use_tls ELSE settings.EMAIL_USE_TLS)

\* C3: called with no campaign, get_campaign_connection returns exactly the
\* process-wide default descriptor, with no attribute changed.
C3_NoCampaignReturnsDefault ==
    (Returned /\ campaign = NoCampaign) => IsDefaultDescriptor(connection)

C3_Witness ==
    /\ Returned
    /\ campaign = NoCampaign
    /\ settings.EMAIL_HOST # EMAIL_HOST
    /\ settings.EMAIL_PORT # EMAIL_PORT
    /\ settings.EMAIL_HOST_USER # EMAIL_HOST_USER
    /\ settings.EMAIL_USE_SSL

\* C4: when use-ssl is true and both the cert file and the key file are present,
\* the descriptor's mode is implicit-SSL and both paths are attached, whatever
\* the use-tls flag is.
C4_SslWithBothFiles ==
    (Given /\ campaign.mailing_list.smtp_use_ssl /\ BothFiles(campaign.mailing_list))
        => /\ Mode(connection) = "implicit-SSL"
           /\ connection.ssl_keyfile = campaign.mailing_list.smtp_ssl_keyfile
           /\ connection.ssl_certfile = campaign.mailing_list.smtp_ssl_certfile

C4_Witness ==
    /\ Given
    /\ campaign.mailing_list.smtp_use_ssl
    /\ BothFiles(campaign.mailing_list)
    /\ campaign.mailing_list.smtp_use_tls
    /\ connection.use_tls
    /\ ~settings.EMAIL_USE_SSL

\* The use-tls flag as resolved: the configuration's when set, else the
\* process-wide default.
ResolvedUseTls == campaign.mailing_list.smtp_use_tls \/ settings.EMAIL_USE_TLS

\* C5 as stated: implicit-SSL is selected only when both a cert file and a key
\* file are present; with use-ssl true and a file missing the mode is STARTTLS
\* if the resolved use-tls flag is true and none otherwise.
C5_SslOnlyWithBothFiles ==
    Given =>
        /\ Mode(connection) = "implicit-SSL" => BothFiles(campaign.mailing_list)
        /\ (campaign.mailing_list.smtp_use_ssl /\ ~BothFiles(campaign.mailing_list))
              => Mode(connection) = (IF ResolvedUseTls THEN "STARTTLS" ELSE "none")

\* C5 as amended: implicit-SSL is selected only when the configuration sets
\* use-ssl with both files present or the process-wide EMAIL_USE_SSL setting is
\* true; with use-ssl true, a file missing and EMAIL_USE_SSL false the mode is
\* STARTTLS if the resolved use-tls flag is true and none otherwise.
C5_SslOnlyWithBothFilesOrDefault ==
    Given =>
        /\ Mode(connection) = "implicit-SSL"
              => \/ campaign.mailing_list.smtp_use_ssl /\ BothFiles(campaign.mailing_list)
                 \/ settings.EMAIL_USE_SSL
        /\ (/\ campaign.mailing_list.smtp_use_ssl
            /\ ~BothFiles(campaign.mailing_list)
            /\ ~settings.EMAIL_USE_SSL)
              => Mode(connection) = (IF ResolvedUseTls THEN "STARTTLS" ELSE "none")

C5_Witness ==
    /\ Given
    /\ campaign.mailing_list.smtp_use_ssl
    /\ Truthy(campaign.mailing_list.smtp_ssl_certfile)
    /\ ~Truthy(campaign.mailing_list.smtp_ssl_keyfile)
    /\ ~settings.EMAIL_USE_SSL
    /\ Mode(connection) = "STARTTLS"

(***************************************************************************)
(* get_client_ip.  A header value is a sequence of characters; request.META *)
(* is a dictionary that may lack either key, and META.get of a missing key  *)
(* is None.                                                                 *)
(***************************************************************************)
MaxHeaderLen == 3

NoneStr == <<"None">>

Chars == {"1", ".", ",", " "}

Strings(n) == UNION { [1..k -> Chars] : k \in 0..n }

ExampleForwardedFor ==
    <<"1", ".", "2", ".", "3", ".", "4", ",", " ", "5", ".", "6", ".", "7", ".", "8">>

ExampleFirstEntry == <<"1", ".", "2", ".", "3", ".", "4">>

ExamplePeer == <<"9", ".", "9", ".", "9", ".", "9">>

ForwardedForValues == Strings(MaxHeaderLen) \cup {ExampleForwardedFor}

RemoteAddrValues == {<<"1">>, ExamplePeer}

\* The dictionary holding x under HTTP_X_FORWARDED_FOR and r under REMOTE_ADDR,
\* a key being left out when its value is NoneStr.
MetaOf(x, r) ==
    [ k \in ((IF x = NoneStr THEN {} ELSE {"HTTP_X_FORWARDED_FOR"})
             \cup (IF r = NoneStr THEN {} ELSE {"REMOTE_ADDR"}))
        |-> IF k = "HTTP_X_FORWARDED_FOR" THEN x ELSE r ]

Metas ==
    { MetaOf(x, r) : x \in ForwardedForValues \cup {NoneStr},
                     r \in RemoteAddrValues \cup {NoneStr} }

META_get(m, k) == IF k \in DOMAIN m THEN m[k] ELSE NoneStr

TruthyStr(s) == s # NoneStr /\ s # << >>

\* str.split(sep): the fields of s between the occurrences of sep.
RECURSIVE split(_, _)
split(s, sep) ==
    IF \A i \in 1..Len(s) : s[i] # sep
    THEN <<s>>
    ELSE LET i == CHOOSE j \in 1..Len(s) :
                    /\ s[j] = sep
                    /\ \A k \in 1..(j - 1) : s[k] # sep
         IN  <<SubSeq(s, 1, i - 1)>> \o split(SubSeq(s, i + 1, Len(s)), sep)

\* Variant of get_client_ip: split(',')[-1] instead of split(',')[0].
mut_last_entry(m) ==
    LET x_forwarded_for == META_get(m, "HTTP_X_FORWARDED_FOR")
    IN  IF TruthyStr(x_forwarded_for)
        THEN split(x_forwarded_for, ",")[Len(split(x_forwarded_for, ","))]
        ELSE META_get(m, "REMOTE_ADDR")

get_client_ip(m) ==
    LET x_forwarded_for == META_get(m, "HTTP_X_FORWARDED_FOR")
    IN  IF TruthyStr(x_forwarded_for)
        THEN split(x_forwarded_for, ",")[1]
        ELSE META_get(m, "REMOTE_ADDR")

DefaultSettings ==
    [ EMAIL_HOST |-> EMAIL_HOST, EMAIL_PORT |-> EMAIL_PORT,
      EMAIL_HOST_USER |-> EMAIL_HOST_USER,
      EMAIL_HOST_PASSWORD |-> EMAIL_HOST_PASSWORD,
      EMAIL_USE_TLS |-> EMAIL_USE_TLS, EMAIL_USE_SSL |-> FALSE,
      EMAIL_TIMEOUT |-> 0, EMAIL_SSL_KEYFILE |-> None,
      EMAIL_SSL_CERTFILE |-> None ]

InitIp ==
    /\ settings = DefaultSettings
    /\ MailIdle
    /\ GeoIdle
    /\ META \in Metas
    /\ client_ip = << >>
    /\ ip_pc = "idle"

CallGetClientIp ==
    /\ ip_pc = "idle"
    /\ client_ip' = get_client_ip(META)
    /\ ip_pc' = "returned"
    /\ UNCHANGED <<META, mail_vars, geo_vars>>

NextIp == CallGetClientIp

SpecIp == InitIp /\ [][NextIp]_vars

\* r is the first comma-separated entry of x: the longest prefix of x that
\* holds no comma.
IsFirstEntry(r, x) ==
    /\ Len(r) <= Len(x)
    /\ SubSeq(x, 1, Len(r)) = r
    /\ \A i \in 1..Len(r) : r[i] # ","
    /\ (Len(r) = Len(x) \/ x[Len(r) + 1] = ",")

\* C8: get_client_ip returns the first comma-separated entry of the
\* forwarded-for header when that header is present and non-empty, and the
\* REMOTE_ADDR header otherwise; "1.2.3.4, 5.6.7.8" gives "1.2.3.4", and an
\* absent forwarded-for with peer "9.9.9.9" gives "9.9.9.9".
C8_ClientIp ==
    ip_pc = "returned" =>
        /\ IF /\ "HTTP_X_FORWARDED_FOR" \in DOMAIN META
              /\ META["HTTP_X_FORWARDED_FOR"] # << >>
           THEN IsFirstEntry(client_ip, META["HTTP_X_FORWARDED_FOR"])
           ELSE client_ip = META_get(META, "REMOTE_ADDR")
        /\ META_get(META, "HTTP_X_FORWARDED_FOR") = ExampleForwardedFor
              => client_ip = ExampleFirstEntry
        /\ META = MetaOf(NoneStr, ExamplePeer) => client_ip = ExamplePeer

C8_Witness ==
    /\ ip_pc = "returned"
    /\ META = MetaOf(ExampleForwardedFor, ExamplePeer)
    /\ client_ip = ExampleFirstEntry

(***************************************************************************)
(* get_location.  The vendor service geoip2.city(ip_address) either raises *)
(* AddressNotFoundError or returns a dictionary whose country_code,        *)
(* country_name and city may each be None.  The address matters only       *)
(* through the vendor's answer, so a call is identified by that answer.    *)
(* A table is a sequence of rows; a row's id is its index, and 0 stands    *)
(* for None where a row is expected.                                       *)
(***************************************************************************)
MaxCalls == 4

AddressNotFoundError == [error |-> "AddressNotFoundError"]

CountryCodes == {"BR", "US"}

CityNames == {"Rio", "Springfield"}

CountryName(code) ==
    IF code = "BR" THEN "Brazil" ELSE IF code = "US" THEN "United States" ELSE None

GeoResults ==
    {AddressNotFoundError} \cup
    { [country_code |-> c, country_name |-> CountryName(c), city |-> n] :
        c \in CountryCodes \cup {None}, n \in CityNames \cup {None} }

\* Country.objects.get(code=code): the id of the matching row, 0 if none.
Country_get(tbl, code) ==
    IF \E i \in 1..Len(tbl) : tbl[i].code = code
    THEN CHOOSE i \in 1..Len(tbl) : tbl[i].code = code
    ELSE 0

\* Variant of City_get: the country is passed as a default, not as a lookup key.
mut_city_by_name_only(tbl, name, c) ==
    IF \E i \in 1..Len(tbl) : tbl[i].name = name
    THEN CHOOSE i \in 1..Len(tbl) : tbl[i].name = name
    ELSE 0

\* City.objects.get(name=name, country=c): the id of the matching row, 0 if none.
City_get(tbl, name, c) ==
    IF \E i \in 1..Len(tbl) : tbl[i].name = name /\ tbl[i].country = c
    THEN CHOOSE i \in 1..Len(tbl) : tbl[i].name = name /\ tbl[i].country = c
    ELSE 0

\* Variant of Country_get_or_create: objects.create instead of get_or_create.
mut_country_create_always(tbl, code, name) ==
    [obj |-> Len(tbl) + 1, created |-> TRUE,
     table |-> Append(tbl, [code |-> code, name |-> name])]

\* Country.objects.get_or_create(code=code, defaults={'name': name}) run with
\* no other writer: the row is fetched, or inserted when the fetch finds none.
Country_get_or_create(tbl, code, name) ==
    LET i == Country_get(tbl, code)
    IN  IF i # 0
        THEN [obj |-> i, created |-> FALSE, table |-> tbl]
        ELSE [obj |-> Len(tbl) + 1, created |-> TRUE,
              table |-> Append(tbl, [code |-> code, name |-> name])]

\* City.objects.get_or_create(name=name, country=c) run with no other writer.
City_get_or_create(tbl, name, c) ==
    LET i == City_get(tbl, name, c)
    IN  IF i # 0
        THEN [obj |-> i, created |-> FALSE, table |-> tbl]
        ELSE [obj |-> Len(tbl) + 1, created |-> TRUE,
              table |-> Append(tbl, [name |-> name, country |-> c])]

Outcome(y, e, ctbl, ytbl) ==
    [city |-> y, error |-> e, countries |-> ctbl, cities |-> ytbl]

\* Variant of get_location: AddressNotFoundError is not caught.
mut_not_caught(g, ctbl, ytbl) ==
    IF g = AddressNotFoundError
    THEN Outcome(0, "AddressNotFoundError", ctbl, ytbl)
    ELSE IF g.country_code = None
    THEN Outcome(0, None, ctbl, ytbl)
    ELSE LET c == Country_get_or_create(ctbl, g.country_code, g.country_name)
         IN  IF g.city = None
             THEN Outcome(0, None, c.table, ytbl)
             ELSE LET y == City_get_or_create(ytbl, g.city, c.obj)
                  IN  Outcome(y.obj, None, c.table, y.table)

\* Variant of get_location: the City is returned only when it was just created.
mut_city_only_when_created(g, ctbl, ytbl) ==
    IF g = AddressNotFoundError
    THEN Outcome(0, None, ctbl, ytbl)
    ELSE IF g.country_code = None
    THEN Outcome(0, None, ctbl, ytbl)
    ELSE LET c == Country_get_or_create(ctbl, g.country_code, g.country_name)
         IN  IF g.city = None
             THEN Outcome(0, None, c.table, ytbl)
             ELSE LET y == City_get_or_create(ytbl, g.city, c.obj)
                  IN  Outcome(IF y.created THEN y.obj ELSE 0, None, c.table, y.table)

(***************************************************************************)
(* get_location with geodata g the vendor's answer, on the tables ctbl and *)
(* ytbl: the City returned, the error propagated (None when none is) and   *)
(* the tables afterwards.                                                  *)
(***************************************************************************)
get_location(g, ctbl, ytbl) ==
    IF g = AddressNotFoundError
    THEN Outcome(0, None, ctbl, ytbl)
    ELSE IF g.country_code = None
    THEN Outcome(0, None, ctbl, ytbl)
    ELSE LET c == Country_get_or_create(ctbl, g.country_code, g.country_name)
         IN  IF g.city = None
             THEN Outcome(0, None, c.table, ytbl)
             ELSE LET y == City_get_or_create(ytbl, g.city, c.obj)
                  IN  Outcome(y.obj, None, c.table, y.table)

InitSeq ==
    /\ settings = DefaultSettings
    /\ MailIdle
    /\ IpIdle
    /\ GeoIdle

\* One whole get_location call, no other call being in progress.
CallGetLocation ==
    /\ Len(history) < MaxCalls
    /\ \E g \in GeoResults :
        LET r == get_location(g, countries, cities)
        IN  /\ countries' = r.countries
            /\ cities' = r.cities
            /\ history' = Append(history,
                   [ geodata |-> g, city |-> r.city, error |-> r.error,
                     before |-> [countries |-> countries, cities |-> cities],
                     after  |-> [countries |-> r.countries, cities |-> r.cities] ])
    /\ UNCHANGED <<pc, geodata, country, city, mail_vars, ip_vars>>

NextSeq == CallGetLocation

SpecSeq == InitSeq /\ [][NextSeq]_vars

(***************************************************************************)
(* Claims about sequential get_location calls, checked under SpecSeq.      *)
(***************************************************************************)
Calls == 1..Len(history)

Resolved(h) == h.geodata # AddressNotFoundError

HasCountry(h) == Resolved(h) /\ h.geodata.country_code # None

HasCity(h) == Resolved(h) /\ h.geodata.city # None

\* The ids of the Country rows of ctbl that carry the code.
CountryRows(ctbl, code) == { i \in 1..Len(ctbl) : ctbl[i].code = code }

\* The ids of the City rows of ytbl that carry the name and belong to a Country
\* row of ctbl that carries the code.
CityRows(ytbl, ctbl, name, code) ==
    { j \in 1..Len(ytbl) :
        /\ ytbl[j].name = name
        /\ ytbl[j].country \in 1..Len(ctbl)
        /\ ctbl[ytbl[j].country].code = code }

ObservedCodes == { history[i].geodata.country_code : i \in { k \in Calls : HasCountry(history[k]) } }

ObservedPairs ==
    { <<history[i].geodata.city, history[i].geodata.country_code>> :
        i \in { k \in Calls : HasCountry(history[k]) /\ HasCity(history[k]) } }

\* C6: a get_location call for which the vendor raises "address not found"
\* returns None, propagates no error and leaves the Country and City tables as
\* they were before the call.
C6_NotFoundCreatesNothing ==
    \A i \in Calls :
        ~Resolved(history[i]) =>
            /\ history[i].city = 0
            /\ history[i].error = None
            /\ history[i].after = history[i].before

C6_Witness ==
    \E i \in Calls :
        /\ ~Resolved(history[i])
        /\ history[i].before.countries # << >>
        /\ history[i].before.cities # << >>

\* C7: after any sequence of sequential calls the store holds exactly one
\* Country row per distinct country code returned and exactly one City row per
\* distinct (city name, country) pair returned, and a call that observes a code
\* or pair already present creates no row for it.
C7_OneRowPerCodeAndPair ==
    /\ \A c \in ObservedCodes : Cardinality(CountryRows(countries, c)) = 1
    /\ \A p \in ObservedPairs : Cardinality(CityRows(cities, countries, p[1], p[2])) = 1
    /\ Len(countries) = Cardinality(ObservedCodes)
    /\ Len(cities) = Cardinality(ObservedPairs)
    /\ \A i \in Calls :
          LET h == history[i] IN
          /\ (HasCountry(h) /\ CountryRows(h.before.countries, h.geodata.country_code) # {})
                => h.after.countries = h.before.countries
          /\ (/\ HasCountry(h)
              /\ HasCity(h)
              /\ CityRows(h.before.cities, h.before.countries,
                          h.geodata.city, h.geodata.country_code) # {})
                => h.after = h.before

C7_Witness ==
    \E i, j, k \in Calls :
        /\ i < j
        /\ HasCountry(history[i]) /\ HasCity(history[i])
        /\ history[j].geodata = history[i].geodata
        /\ HasCountry(history[k]) /\ HasCity(history[k])
        /\ history[k].geodata.city = history[i].geodata.city
        /\ history[k].geodata.country_code # history[i].geodata.country_code
        /\ Len(cities) = 2

\* The City row with id y of the tables after call h carries the city name and
\* the Country of the country code that the vendor returned.
ReturnsCityOf(h) ==
    /\ h.city \in 1..Len(h.after.cities)
    /\ h.city \in CityRows(h.after.cities, h.after.countries,
                           h.geodata.city, h.geodata.country_code)

\* C10 as stated: for every address the vendor resolves a Country row exists
\* for the returned country code after the call, and the call returns a City
\* exactly when the vendor result carries a city name, that City having the
\* returned name and the Country of the returned code.
C10_CityIffCityName ==
    \A i \in Calls :
        LET h == history[i] IN
        Resolved(h) =>
            /\ HasCountry(h) => CountryRows(h.after.countries, h.geodata.country_code) # {}
            /\ (h.city # 0) <=> HasCity(h)
            /\ (h.city # 0) => ReturnsCityOf(h)

\* C10 as amended: the call returns a City exactly when the vendor result
\* carries both a country code and a city name; a Country row exists for the
\* returned country code whenever one is returned.
C10_CityIffCountryAndCityName ==
    \A i \in Calls :
        LET h == history[i] IN
        Resolved(h) =>
            /\ h.error = None
            /\ HasCountry(h) => CountryRows(h.after.countries, h.geodata.country_code) # {}
            /\ (h.city # 0) <=> (HasCountry(h) /\ HasCity(h))
            /\ (h.city # 0) => ReturnsCityOf(h)

C10_Witness ==
    /\ \E i \in Calls :
          /\ Resolved(history[i]) /\ HasCity(history[i]) /\ ~HasCountry(history[i])
          /\ history[i].city = 0
    /\ \E i \in Calls :
          /\ history[i].city # 0
          /\ history[i].after = history[i].before
    /\ \E i \in Calls :
          /\ HasCountry(history[i]) /\ ~HasCity(history[i])
          /\ history[i].city = 0

(***************************************************************************)
(* Concurrent get_location calls, one per caller.  get_or_create is three  *)
(* store operations: a fetch; when it finds nothing, an insert; and when   *)
(* the insert is refused with a duplicate-key error, a second fetch, after *)
(* which the error is re-raised if that fetch finds nothing either.        *)
(***************************************************************************)
NumCallers == 2

Callers == 1..NumCallers

\* The unique key of the Country table: the store refuses a second row with
\* the same code.
Country_duplicate_key(tbl, code) == \E i \in 1..Len(tbl) : tbl[i].code = code

\* The unique key of the City table: the store refuses a second row with the
\* same name and country.
City_duplicate_key(tbl, name, c) ==
    \E i \in 1..Len(tbl) : tbl[i].name = name /\ tbl[i].country = c

\* Variant of after_country: the city step is skipped.
mut_skip_city(g) == "returned"

\* Where get_location goes once it holds the Country row.
after_country(g) == IF g.city # None THEN "city_get" ELSE "returned"

InitConc ==
    /\ settings = DefaultSettings
    /\ MailIdle
    /\ IpIdle
    /\ countries = << >>
    /\ cities = << >>
    /\ history = << >>
    /\ pc = [p \in Callers |-> "idle"]
    /\ geodata = [p \in Callers |-> AddressNotFoundError]
    /\ country = [p \in Callers |-> 0]
    /\ city = [p \in Callers |-> 0]

\* geodata = geoip2.city(ip_address), the except clause and the first `if`.
Lookup(p) ==
    /\ pc[p] = "idle"
    /\ \E g \in GeoResults :
        /\ geodata' = [geodata EXCEPT ![p] = g]
        /\ pc' = [pc EXCEPT ![p] =
                    IF g = AddressNotFoundError THEN "returned"
                    ELSE IF g.country_code = None THEN "returned"
                    ELSE "country_get"]
    /\ UNCHANGED <<countries, cities, history, country, city, mail_vars, ip_vars>>

\* Country get_or_create: the fetch.
CountryGet(p) ==
    /\ pc[p] = "country_get"
    /\ LET i == Country_get(countries, geodata[p].country_code)
       IN  IF i # 0
           THEN /\ country' = [country EXCEPT ![p] = i]
                /\ pc' = [pc EXCEPT ![p] = after_country(geodata[p])]
           ELSE /\ country' = country
                /\ pc' = [pc EXCEPT ![p] = "country_create"]
    /\ UNCHANGED <<countries, cities, history, geodata, city, mail_vars, ip_vars>>

\* Country get_or_create: the insert, refused when another caller has inserted
\* the code in the meantime.
CountryCreate(p) ==
    /\ pc[p] = "country_create"
    /\ IF Country_duplicate_key(countries, geodata[p].country_code)
       THEN /\ pc' = [pc EXCEPT ![p] = "country_retry"]
            /\ UNCHANGED <<countries, country>>
       ELSE /\ countries' = Append(countries,
                   [code |-> geodata[p].country_code, name |-> geodata[p].country_name])
            /\ country' = [country EXCEPT ![p] = Len(countries) + 1]
            /\ pc' = [pc EXCEPT ![p] = after_country(geodata[p])]
    /\ UNCHANGED <<cities, history, geodata, city, mail_vars, ip_vars>>

\* Country get_or_create: the second fetch finds the other caller's row.
CountryRetryFound(p) ==
    /\ pc[p] = "country_retry"
    /\ Country_get(countries, geodata[p].country_code) # 0
    /\ country' = [country EXCEPT ![p] = Country_get(countries, geodata[p].country_code)]
    /\ pc' = [pc EXCEPT ![p] = after_country(geodata[p])]
    /\ UNCHANGED <<countries, cities, history, geodata, city, mail_vars, ip_vars>>

\* Country get_or_create: the second fetch reads a snapshot older than the
\* other caller's row, finds nothing, and the duplicate-key error is re-raised.
CountryRetryRaise(p) ==
    /\ pc[p] = "country_retry"
    /\ pc' = [pc EXCEPT ![p] = "raised"]
    /\ UNCHANGED <<countries, cities, history, geodata, country, city, mail_vars, ip_vars>>

\* City get_or_create: the fetch.
CityGet(p) ==
    /\ pc[p] = "city_get"
    /\ LET i == City_get(cities, geodata[p].city, country[p])
       IN  IF i # 0
           THEN /\ city' = [city EXCEPT ![p] = i]
                /\ pc' = [pc EXCEPT ![p] = "returned"]
           ELSE /\ city' = city
                /\ pc' = [pc EXCEPT ![p] = "city_create"]
    /\ UNCHANGED <<countries, cities, history, geodata, country, mail_vars, ip_vars>>

\* City get_or_create: the insert, refused when another caller has inserted the
\* (name, country) pair in the meantime.
CityCreate(p) ==
    /\ pc[p] = "city_create"
    /\ IF City_duplicate_key(cities, geodata[p].city, country[p])
       THEN /\ pc' = [pc EXCEPT ![p] = "city_retry"]
            /\ UNCHANGED <<cities, city>>
       ELSE /\ cities' = Append(cities, [name |-> geodata[p].city, country |-> country[p]])
            /\ city' = [city EXCEPT ![p] = Len(cities) + 1]
            /\ pc' = [pc EXCEPT ![p] = "returned"]
    /\ UNCHANGED <<countries, history, geodata, country, mail_vars, ip_vars>>

\* City get_or_create: the second fetch finds the other caller's row.
CityRetryFound(p) ==
    /\ pc[p] = "city_retry"
    /\ City_get(cities, geodata[p].city, country[p]) # 0
    /\ city' = [city EXCEPT ![p] = City_get(cities, geodata[p].city, country[p])]
    /\ pc' = [pc EXCEPT ![p] = "returned"]
    /\ UNCHANGED <<countries, cities, history, geodata, country, mail_vars, ip_vars>>

\* City get_or_create: the second fetch finds nothing and the duplicate-key
\* error is re-raised.
CityRetryRaise(p) ==
    /\ pc[p] = "city_retry"
    /\ pc' = [pc EXCEPT ![p] = "raised"]
    /\ UNCHANGED <<countries, cities, history, geodata, country, city, mail_vars, ip_vars>>

NextConc ==
    \E p \in Callers :
        \/ Lookup(p)
        \/ CountryGet(p)
        \/ CountryCreate(p)
        \/ CountryRetryFound(p)
        \/ CountryRetryRaise(p)
        \/ CityGet(p)
        \/ CityCreate(p)
        \/ CityRetryFound(p)
        \/ CityRetryRaise(p)

SpecConc == InitConc /\ [][NextConc]_vars

(***************************************************************************)
(* Claim about concurrent get_location calls, checked under SpecConc.      *)
(***************************************************************************)
\* C9: under every interleaving of concurrent calls the store never holds two
\* Country rows with the same code nor two City rows with the same (name,
\* country); a call that has ended either holds the single row for what the
\* vendor returned to it or ended with the store's duplicate-key error.
C9_NoDuplicateRows ==
    /\ \A i, j \in 1..Len(countries) :
          countries[i].code = countries[j].code => i = j
    /\ \A i, j \in 1..Len(cities) :
          (cities[i].name = cities[j].name /\ cities[i].country = cities[j].country)
              => i = j
    /\ \A p \in Callers :
          /\ pc[p] \in {"idle", "country_get", "country_create", "country_retry",
                        "city_get", "city_create", "city_retry", "returned", "raised"}
          /\ (pc[p] = "returned" /\ geodata[p] # AddressNotFoundError
                /\ geodata[p].country_code # None)
                => /\ CountryRows(countries, geodata[p].country_code) = {country[p]}
                   /\ geodata[p].city # None
                        => CityRows(cities, countries, geodata[p].city,
                                    geodata[p].country_code) = {city[p]}
          /\ pc[p] = "raised"
                => CountryRows(countries, geodata[p].country_code) # {}

C9_Witness ==
    \E p, q \in Callers :
        /\ p # q
        /\ geodata[p] = geodata[q]
        /\ pc[q] = "returned"
        /\ city[q] # 0
        /\ pc[p] = "city_retry"
        /\ country[p] = country[q]
        /\ Len(countries) = 1
        /\ Len(cities) = 1

====
